---- MODULE Spec2Model ----
(***************************************************************************)
(* A model of the scenario persistence layer of p2plab                     *)
(* (metadata/scenario.go): scenario records encoded as nested bbolt        *)
(* buckets, and the Get/List/Create/Update/Delete handlers over them;      *)
(* of the error mapping of the HTTP daemon (daemon/daemon.go); and of the  *)
(* scenario calls of the REST client (labd/controlapi/scenario.go).        *)
(*                                                                         *)
(* A bucket is a record [kv, sub]: kv maps leaf keys to leaf values, sub   *)
(* maps keys to nested buckets.  A Go map is a record [isNil, kv], so that *)
(* a nil map and an empty non-nil map are different values.                *)
(***************************************************************************)
EXTENDS Integers, FiniteSets, Sequences, TLC

\* ------------------------------------------------------------------ bounds

\* The last reading the wall clock can give (time.Now() is capped here).
MaxTime == 2

\* ------------------------------------------------------- reserved key names

bucketKeyScenarios == "scenarios"
bucketKeyID == "id"
bucketKeyCreatedAt == "createdAt"
bucketKeyUpdatedAt == "updatedAt"
bucketKeyDefinition == "definition"
bucketKeyObjects == "objects"
bucketKeySeed == "seed"
bucketKeyBenchmark == "benchmark"
bucketKeyType == "type"
bucketKeyReference == "reference"

\* ------------------------------------------------------------------ errors

nil == "nil"
ErrNotFound == "ErrNotFound"
ErrAlreadyExists == "ErrAlreadyExists"
ErrInvalidArgument == "ErrInvalidArgument"
ErrBucketExists == "ErrBucketExists"
ErrBucketNotFound == "ErrBucketNotFound"
ErrBucketNameRequired == "ErrBucketNameRequired"
ErrKeyRequired == "ErrKeyRequired"
ErrIncompatibleValue == "ErrIncompatibleValue"
ErrCommit == "ErrCommit"
ErrUnavailable == "ErrUnavailable"

\* ------------------------------------------------------------ Go values

EmptyFcn == [k \in {} |-> ""]

\* A nil map, and the non-nil map holding the entries of f.
NilMap == [isNil |-> TRUE, kv |-> EmptyFcn]
MakeMap(f) == [isNil |-> FALSE, kv |-> f]

\* len(m)
len(m) == Cardinality(DOMAIN m.kv)

\* f without key k, and f with k set to v.
Without(f, k) == [x \in (DOMAIN f) \ {k} |-> f[x]]
With(f, k, v) == [x \in (DOMAIN f) \cup {k} |-> IF x = k THEN v ELSE f[x]]

\* The zero time.Time, and the zero values of the structs.
ZeroTime == [wall |-> 0]
ZeroDefinition == [Objects |-> NilMap, Seed |-> NilMap, Benchmark |-> NilMap]
ZeroScenario ==
    [ID |-> "", Definition |-> ZeroDefinition,
     CreatedAt |-> ZeroTime, UpdatedAt |-> ZeroTime]

\* ------------------------------------------------------- bbolt buckets

EmptyBucket == [kv |-> EmptyFcn, sub |-> EmptyFcn]

\* b.Bucket(name) != nil, and the bucket it returns.
HasBucket(b, name) == name \in DOMAIN b.sub
Bucket(b, name) == b.sub[name]

\* b.Get(key) != nil, and the value it returns.
HasKey(b, key) == key \in DOMAIN b.kv
Get(b, key) == b.kv[key]

\* b.CreateBucket(name): the error, and the bucket b afterwards.
CreateBucket(b, name) ==
    IF name = "" THEN [err |-> ErrBucketNameRequired, bkt |-> b]
    ELSE IF HasBucket(b, name) THEN [err |-> ErrBucketExists, bkt |-> b]
    ELSE IF HasKey(b, name) THEN [err |-> ErrIncompatibleValue, bkt |-> b]
    ELSE [err |-> nil, bkt |-> [b EXCEPT !.sub = With(b.sub, name, EmptyBucket)]]

\* b.DeleteBucket(name): removes the nested bucket and everything under it.
DeleteBucket(b, name) ==
    IF HasBucket(b, name)
    THEN [err |-> nil, bkt |-> [b EXCEPT !.sub = Without(b.sub, name)]]
    ELSE IF HasKey(b, name) THEN [err |-> ErrIncompatibleValue, bkt |-> b]
    ELSE [err |-> ErrBucketNotFound, bkt |-> b]

\* b.Put(key, value)
Put(b, key, value) ==
    IF key = "" THEN [err |-> ErrKeyRequired, bkt |-> b]
    ELSE IF HasBucket(b, key) THEN [err |-> ErrIncompatibleValue, bkt |-> b]
    ELSE [err |-> nil, bkt |-> [b EXCEPT !.kv = With(b.kv, key, value)]]

\* The bucket b with its nested bucket name replaced by c (writes made
\* through a nested *bolt.Bucket are writes to the same transaction).
SetBucket(b, name, c) == [b EXCEPT !.sub = With(b.sub, name, c)]

\* ------------------------------------------------------- timestamps

\* time.Time.MarshalBinary / UnmarshalBinary: the leaf holds an encoding of
\* the instant, not the instant.
MarshalBinary(t) == <<"time", t.wall>>
UnmarshalBinary(v) == [wall |-> v[2]]

\* An operator that takes the result of an earlier step as a parameter is
\* the rest of the function after that step.

\* The second Put of WriteTimestamps, after the first returned p.
writeUpdatedAt(updated, p) ==
    IF p.err # nil THEN p
    ELSE Put(p.bkt, bucketKeyUpdatedAt, MarshalBinary(updated))

WriteTimestamps(bkt, created, updated) ==
    writeUpdatedAt(updated, Put(bkt, bucketKeyCreatedAt, MarshalBinary(created)))

\* The two instants of the scenario after ReadTimestamps: a missing leaf
\* leaves the field as it was.
ReadTimestamps(bkt, scenario) ==
    [scenario EXCEPT
        !.CreatedAt = IF HasKey(bkt, bucketKeyCreatedAt)
                      THEN UnmarshalBinary(Get(bkt, bucketKeyCreatedAt)) ELSE @,
        !.UpdatedAt = IF HasKey(bkt, bucketKeyUpdatedAt)
                      THEN UnmarshalBinary(Get(bkt, bucketKeyUpdatedAt)) ELSE @]

\* ------------------------------------------------------------ field codec

\* if bkt.Bucket(name) != nil { bkt.DeleteBucket(name) }
deleteIfExists(bkt, name) ==
    IF HasBucket(bkt, name) THEN DeleteBucket(bkt, name)
    ELSE [err |-> nil, bkt |-> bkt]

readMap(bkt, name) ==
    IF ~HasBucket(bkt, name) THEN NilMap
    ELSE MakeMap(Bucket(bkt, name).kv)

\* The loop of writeMap without its delete(m, k): every entry is kept.
prunedKeepEmpty(m) == m

\* The map m after the loop of writeMap deleted its empty-valued entries.
pruned(m) ==
    MakeMap([k \in {x \in DOMAIN m.kv : m.kv[x] # ""} |-> m.kv[k]])

\* The loop of writeMap, after CreateBucket returned c.  The keys of a Go
\* map are ranged over in no fixed order; when a Put fails the loop stops,
\* and the entries written before it are whatever the order gave: here none
\* (the failing key first).
writeMapEntries(name, m, c) ==
    IF c.err # nil THEN [err |-> c.err, bkt |-> c.bkt, m |-> m]
    ELSE IF "" \in DOMAIN pruned(m).kv
    THEN [err |-> ErrKeyRequired, bkt |-> c.bkt, m |-> m]
    ELSE [err |-> nil,
          bkt |-> SetBucket(c.bkt, name, [kv |-> pruned(m).kv, sub |-> EmptyFcn]),
          m |-> pruned(m)]

\* writeMap without its return on an empty map: the bucket is created
\* whatever the map holds.
writeMapCreateAlways(name, m, d) ==
    IF d.err # nil THEN [err |-> d.err, bkt |-> d.bkt, m |-> m]
    ELSE writeMapEntries(name, m, CreateBucket(d.bkt, name))

\* writeMap after the existing bucket was removed with result d.
writeMapCreate(name, m, d) ==
    IF d.err # nil THEN [err |-> d.err, bkt |-> d.bkt, m |-> m]
    ELSE IF len(m) = 0 THEN [err |-> nil, bkt |-> d.bkt, m |-> m]
    ELSE writeMapEntries(name, m, CreateBucket(d.bkt, name))

\* writeMap returns the error, the bucket afterwards and the caller's map m
\* afterwards: delete(m, k) acts on the map the caller passed.
writeMap(bkt, name, m) ==
    writeMapCreate(name, m, deleteIfExists(bkt, name))

\* One object's bucket: its Type and Reference leaves.
objectBucket(object) ==
    [kv |-> (bucketKeyType :> object.Type) @@ (bucketKeyReference :> object.Reference),
     sub |-> EmptyFcn]

\* The loop of writeObjects, after CreateBucket returned c (an object with
\* no name is refused by CreateBucket; see writeMapEntries for the order).
writeObjectsEntries(objects, c) ==
    IF c.err # nil THEN c
    ELSE IF "" \in DOMAIN objects.kv
    THEN [err |-> ErrBucketNameRequired, bkt |-> c.bkt]
    ELSE [err |-> nil,
          bkt |-> SetBucket(c.bkt, bucketKeyObjects,
                      [kv |-> EmptyFcn,
                       sub |-> [n \in DOMAIN objects.kv |->
                                   objectBucket(objects.kv[n])]])]

writeObjectsCreate(objects, d) ==
    IF d.err # nil THEN d
    ELSE IF len(objects) = 0 THEN [err |-> nil, bkt |-> d.bkt]
    ELSE writeObjectsEntries(objects, CreateBucket(d.bkt, bucketKeyObjects))

writeObjects(bkt, objects) ==
    writeObjectsCreate(objects, deleteIfExists(bkt, bucketKeyObjects))

\* One object read back from its bucket: only the leaves named type and
\* reference are looked at.
readObject(nbkt) ==
    [Type |-> IF HasKey(nbkt, bucketKeyType) THEN Get(nbkt, bucketKeyType) ELSE "",
     Reference |-> IF HasKey(nbkt, bucketKeyReference)
                   THEN Get(nbkt, bucketKeyReference) ELSE "",
     Chunker |-> "",
     Layout |-> ""]

\* The objects of the objects bucket obkt.
readObjectsIn(obkt) ==
    MakeMap([n \in DOMAIN obkt.sub |-> readObject(obkt.sub[n])])

readObjects(bkt) ==
    IF ~HasBucket(bkt, bucketKeyObjects) THEN NilMap
    ELSE readObjectsIn(Bucket(bkt, bucketKeyObjects))

\* ------------------------------------------------------------ definition

\* writeDefinition as a merge: the definition bucket is kept when it exists
\* and the entries of sdef are written over what it holds.
writeDefinitionMerge(bkt, sdef) ==
    LET old == IF HasBucket(bkt, bucketKeyDefinition)
               THEN Bucket(bkt, bucketKeyDefinition) ELSE EmptyBucket
        o == writeObjects(EmptyBucket, sdef.Objects)
        s == writeMap(o.bkt, bucketKeySeed, sdef.Seed)
        b == writeMap(s.bkt, bucketKeyBenchmark, sdef.Benchmark)
        merged == [kv |-> old.kv,
                   sub |-> [n \in DOMAIN old.sub \cup DOMAIN b.bkt.sub |->
                              IF n \notin DOMAIN b.bkt.sub THEN old.sub[n]
                              ELSE IF n \notin DOMAIN old.sub THEN b.bkt.sub[n]
                              ELSE [kv |-> b.bkt.sub[n].kv @@ old.sub[n].kv,
                                    sub |-> b.bkt.sub[n].sub @@ old.sub[n].sub]]]
    IN  IF o.err # nil THEN [err |-> o.err, bkt |-> bkt, sdef |-> sdef]
        ELSE IF s.err # nil THEN [err |-> s.err, bkt |-> bkt, sdef |-> sdef]
        ELSE IF b.err # nil THEN [err |-> b.err, bkt |-> bkt, sdef |-> sdef]
        ELSE [err |-> nil, bkt |-> SetBucket(bkt, bucketKeyDefinition, merged),
              sdef |-> [sdef EXCEPT !.Seed = s.m, !.Benchmark = b.m]]

\* The end of writeDefinition: bkt is the id-bucket, seed the Seed map as
\* writeMap left it, b the result of writing Benchmark.
writeDefinitionDone(sdef, bkt, seed, b) ==
    [err |-> b.err,
     bkt |-> SetBucket(bkt, bucketKeyDefinition, b.bkt),
     sdef |-> [sdef EXCEPT !.Seed = seed, !.Benchmark = b.m]]

\* writeDefinition after Seed was written with result s.
writeDefinitionBenchmark(sdef, bkt, s) ==
    IF s.err # nil
    THEN [err |-> s.err, bkt |-> SetBucket(bkt, bucketKeyDefinition, s.bkt),
          sdef |-> [sdef EXCEPT !.Seed = s.m]]
    ELSE writeDefinitionDone(sdef, bkt, s.m,
             writeMap(s.bkt, bucketKeyBenchmark, sdef.Benchmark))

\* writeDefinition after Objects was written with result o.
writeDefinitionSeed(sdef, bkt, o) ==
    IF o.err # nil
    THEN [err |-> o.err, bkt |-> SetBucket(bkt, bucketKeyDefinition, o.bkt),
          sdef |-> sdef]
    ELSE writeDefinitionBenchmark(sdef, bkt, writeMap(o.bkt, bucketKeySeed, sdef.Seed))

\* writeDefinition after CreateBucket of the definition bucket returned c.
writeDefinitionObjects(sdef, c) ==
    IF c.err # nil THEN [err |-> c.err, bkt |-> c.bkt, sdef |-> sdef]
    ELSE writeDefinitionSeed(sdef, c.bkt,
             writeObjects(Bucket(c.bkt, bucketKeyDefinition), sdef.Objects))

\* writeDefinition after the existing definition bucket was removed.
writeDefinitionCreate(sdef, d) ==
    IF d.err # nil THEN [err |-> d.err, bkt |-> d.bkt, sdef |-> sdef]
    ELSE writeDefinitionObjects(sdef, CreateBucket(d.bkt, bucketKeyDefinition))

\* writeDefinition returns the error, the id-bucket afterwards and the
\* definition afterwards (its maps are the caller's maps, see writeMap).
writeDefinition(bkt, sdef) ==
    writeDefinitionCreate(sdef, deleteIfExists(bkt, bucketKeyDefinition))

\* The definition held by the definition bucket dbkt.
readDefinitionIn(dbkt) ==
    [Objects |-> readObjects(dbkt),
     Seed |-> readMap(dbkt, bucketKeySeed),
     Benchmark |-> readMap(dbkt, bucketKeyBenchmark)]

readDefinition(bkt) ==
    IF ~HasBucket(bkt, bucketKeyDefinition) THEN ZeroDefinition
    ELSE readDefinitionIn(Bucket(bkt, bucketKeyDefinition))

\* -------------------------------------------------------------- scenario

\* The end of writeScenario: the Put of the ID leaf returned i.
writeScenarioDone(scenario, i) ==
    [err |-> i.err, bkt |-> i.bkt, scenario |-> scenario]

\* writeScenario without its Put of the ID leaf.
writeScenarioIDNoPut(scenario, d) ==
    [err |-> d.err, bkt |-> d.bkt,
     scenario |-> [scenario EXCEPT !.Definition = d.sdef]]

\* writeScenario after writeDefinition returned d.
writeScenarioID(scenario, d) ==
    IF d.err # nil
    THEN [err |-> d.err, bkt |-> d.bkt,
          scenario |-> [scenario EXCEPT !.Definition = d.sdef]]
    ELSE writeScenarioDone([scenario EXCEPT !.Definition = d.sdef],
                           Put(d.bkt, bucketKeyID, scenario.ID))

\* writeScenario after WriteTimestamps returned t.
writeScenarioDefinition(scenario, t) ==
    IF t.err # nil THEN [err |-> t.err, bkt |-> t.bkt, scenario |-> scenario]
    ELSE writeScenarioID(scenario, writeDefinition(t.bkt, scenario.Definition))

\* writeScenario returns the error, the id-bucket afterwards and the
\* scenario afterwards.
writeScenario(bkt, scenario) ==
    writeScenarioDefinition(scenario,
        WriteTimestamps(bkt, scenario.CreatedAt, scenario.UpdatedAt))

\* readScenario after ReadTimestamps gave ts.
readScenarioFields(bkt, ts) ==
    [ts EXCEPT !.Definition = readDefinition(bkt),
               !.ID = IF HasKey(bkt, bucketKeyID) THEN Get(bkt, bucketKeyID) ELSE @]

\* readScenario fills the scenario it is given: a field with no leaf keeps
\* the value it came with.
readScenario(bkt, scenario) ==
    readScenarioFields(bkt, ReadTimestamps(bkt, scenario))

\* ---------------------------------------------------------- transactions

getScenariosBucket(tx) == Bucket(tx, bucketKeyScenarios)
hasScenariosBucket(tx) == HasBucket(tx, bucketKeyScenarios)

\* tx.CreateBucketIfNotExists of the scenarios namespace.
createScenariosBucket(tx) ==
    IF hasScenariosBucket(tx) THEN [err |-> nil, bkt |-> tx]
    ELSE CreateBucket(tx, bucketKeyScenarios)

\* The transaction with the scenarios bucket replaced by bkt.
withScenarios(tx, bkt) == SetBucket(tx, bucketKeyScenarios, bkt)

\* DB.Update(fn): r is what fn returned ([err, tx], tx the transaction's
\* root as fn left it), commit the error of the commit.  The store
\* afterwards: the transaction's state when fn and the commit both
\* succeeded, the state before otherwise.
Update(store, r, commit) ==
    IF r.err # nil THEN [err |-> r.err, db |-> store]
    ELSE IF commit # nil THEN [err |-> commit, db |-> store]
    ELSE [err |-> nil, db |-> r.tx]

\* ----------------------------------------------------------- record CRUD

\* GetScenario: a read-only transaction on the committed store.
GetScenario(store, id) ==
    IF ~hasScenariosBucket(store) THEN [err |-> ErrNotFound, scenario |-> ZeroScenario]
    ELSE IF ~HasBucket(getScenariosBucket(store), id)
    THEN [err |-> ErrNotFound, scenario |-> ZeroScenario]
    ELSE [err |-> nil,
          scenario |-> readScenario(Bucket(getScenariosBucket(store), id),
                                    [ZeroScenario EXCEPT !.ID = id])]

\* The keys of a set in the order ForEach visits them (one fixed order).
RECURSIVE forEachOrder(_)
forEachOrder(keys) ==
    IF keys = {} THEN <<>>
    ELSE <<CHOOSE x \in keys : TRUE>>
             \o forEachOrder(keys \ {CHOOSE x \in keys : TRUE})

\* The scenarios ListScenarios appends, visiting the keys ks of bkt.
listScenariosIn(bkt, ks) ==
    [i \in 1..Len(ks) |->
        readScenario(Bucket(bkt, ks[i]), [ZeroScenario EXCEPT !.ID = ks[i]])]

\* ListScenarios failing, as GetScenario does, when the namespace is absent.
ListScenariosNotFound(store) ==
    IF ~hasScenariosBucket(store) THEN [err |-> ErrNotFound, scenarios |-> <<>>]
    ELSE [err |-> nil,
          scenarios |-> listScenariosIn(getScenariosBucket(store),
                            forEachOrder(DOMAIN getScenariosBucket(store).sub))]

\* ListScenarios: one scenario appended per key of the scenarios bucket.
ListScenarios(store) ==
    IF ~hasScenariosBucket(store) THEN [err |-> nil, scenarios |-> <<>>]
    ELSE [err |-> nil,
          scenarios |-> listScenariosIn(getScenariosBucket(store),
                            forEachOrder(DOMAIN getScenariosBucket(store).sub))]

\* The end of the function of CreateScenario: tx is the transaction, bkt the
\* scenarios bucket, w what writeScenario returned.
createScenarioDone(id, tx, bkt, w) ==
    [err |-> w.err,
     tx |-> withScenarios(tx, SetBucket(bkt, id, w.bkt)),
     scenario |-> w.scenario]

\* createScenarioFn with CreateBucketIfNotExists for the id-bucket: a create
\* of an id that exists writes over it.
createScenarioFnUpsert(tx, scenario, t) ==
    LET b == createScenariosBucket(tx)
        bkt == getScenariosBucket(b.bkt)
        c == IF HasBucket(bkt, scenario.ID) THEN [err |-> nil, bkt |-> bkt]
             ELSE CreateBucket(bkt, scenario.ID)
        stamped == [scenario EXCEPT !.CreatedAt = t, !.UpdatedAt = t]
    IN  IF b.err # nil THEN [err |-> b.err, tx |-> b.bkt, scenario |-> scenario]
        ELSE IF c.err # nil THEN [err |-> c.err, tx |-> b.bkt, scenario |-> scenario]
        ELSE createScenarioDone(scenario.ID, b.bkt, c.bkt,
                 writeScenario(Bucket(c.bkt, scenario.ID), stamped))

\* The function of CreateScenario after CreateBucket of the id-bucket
\* returned c: tx is the transaction with the scenarios bucket.
createScenarioWrite(tx, scenario, t, c) ==
    IF c.err = ErrBucketExists
    THEN [err |-> ErrAlreadyExists, tx |-> tx, scenario |-> scenario]
    ELSE IF c.err # nil THEN [err |-> c.err, tx |-> tx, scenario |-> scenario]
    ELSE createScenarioDone(scenario.ID, tx, c.bkt,
             writeScenario(Bucket(c.bkt, scenario.ID),
                           [scenario EXCEPT !.CreatedAt = t, !.UpdatedAt = t]))

\* The function of CreateScenario after createScenariosBucket returned b.
createScenarioIn(scenario, t, b) ==
    IF b.err # nil THEN [err |-> b.err, tx |-> b.bkt, scenario |-> scenario]
    ELSE createScenarioWrite(b.bkt, scenario, t,
             CreateBucket(getScenariosBucket(b.bkt), scenario.ID))

\* The function CreateScenario hands to Update: the error it returns, the
\* transaction as it leaves it, and the scenario variable it closes over.
createScenarioFn(tx, scenario, t) ==
    createScenarioIn(scenario, t, createScenariosBucket(tx))

\* What a handler returns once Update returned u: r is what its function
\* returned.
returned(r, u) ==
    [err |-> u.err, db |-> u.db,
     scenario |-> IF u.err # nil THEN ZeroScenario ELSE r.scenario]

\* The transaction of a handler whose function returned r.
transact(store, r, commit) == returned(r, Update(store, r, commit))

\* CreateScenario(scenario) with time.Now() reading t and the commit ending
\* in error commit: the error and scenario returned, and the store after.
CreateScenario(store, scenario, t, commit) ==
    transact(store, createScenarioFn(store, scenario, t), commit)

\* updateScenarioFn with CreateBucketIfNotExists for the id-bucket: an update
\* of an absent id creates it.
updateScenarioFnUpsert(tx, scenario, t) ==
    LET b == createScenariosBucket(tx)
        bkt == getScenariosBucket(b.bkt)
        c == IF HasBucket(bkt, scenario.ID) THEN [err |-> nil, bkt |-> bkt]
             ELSE CreateBucket(bkt, scenario.ID)
        stamped == [scenario EXCEPT !.UpdatedAt = t]
    IN  IF b.err # nil THEN [err |-> b.err, tx |-> b.bkt, scenario |-> scenario]
        ELSE IF c.err # nil THEN [err |-> c.err, tx |-> b.bkt, scenario |-> scenario]
        ELSE createScenarioDone(scenario.ID, b.bkt, c.bkt,
                 writeScenario(Bucket(c.bkt, scenario.ID), stamped))

\* The end of the function of UpdateScenario: w is what writeScenario
\* returned.
updateScenarioDone(id, tx, w) ==
    [err |-> w.err,
     tx |-> withScenarios(tx, SetBucket(getScenariosBucket(tx), id, w.bkt)),
     scenario |-> w.scenario]

\* The function of UpdateScenario after createScenariosBucket returned b.
updateScenarioIn(scenario, t, b) ==
    IF b.err # nil THEN [err |-> b.err, tx |-> b.bkt, scenario |-> scenario]
    ELSE IF ~HasBucket(getScenariosBucket(b.bkt), scenario.ID)
    THEN [err |-> ErrNotFound, tx |-> b.bkt, scenario |-> scenario]
    ELSE updateScenarioDone(scenario.ID, b.bkt,
             writeScenario(Bucket(getScenariosBucket(b.bkt), scenario.ID),
                           [scenario EXCEPT !.UpdatedAt = t]))

updateScenarioFn(tx, scenario, t) ==
    updateScenarioIn(scenario, t, createScenariosBucket(tx))

\* UpdateScenario keeping what the transaction wrote when its function
\* failed: the error is returned, the writes made before it stay.
UpdateScenarioNoRollback(store, scenario, t, commit) ==
    IF scenario.ID = ""
    THEN [err |-> ErrInvalidArgument, db |-> store, scenario |-> ZeroScenario]
    ELSE LET r == updateScenarioFn(store, scenario, t)
             u == Update(store, [err |-> nil, tx |-> r.tx], commit)
         IN  IF r.err # nil
             THEN [err |-> r.err, db |-> u.db, scenario |-> ZeroScenario]
             ELSE [err |-> u.err, db |-> u.db,
                   scenario |-> IF u.err # nil THEN ZeroScenario ELSE r.scenario]

\* UpdateScenario without the check of the id.
UpdateScenarioNoIDCheck(store, scenario, t, commit) ==
    transact(store, updateScenarioFn(store, scenario, t), commit)

UpdateScenario(store, scenario, t, commit) ==
    IF scenario.ID = ""
    THEN [err |-> ErrInvalidArgument, db |-> store, scenario |-> ZeroScenario]
    ELSE transact(store, updateScenarioFn(store, scenario, t), commit)

\* deleteScenarioFn emptying the id-bucket instead of removing it.
deleteScenarioFnShallow(tx, id) ==
    IF ~hasScenariosBucket(tx) THEN [err |-> ErrNotFound, tx |-> tx]
    ELSE IF ~HasBucket(getScenariosBucket(tx), id) THEN [err |-> ErrNotFound, tx |-> tx]
    ELSE [err |-> nil,
          tx |-> withScenarios(tx, SetBucket(getScenariosBucket(tx), id, EmptyBucket))]

\* The function of DeleteScenario after DeleteBucket returned d.
deleteScenarioDone(tx, d) ==
    IF d.err = ErrBucketNotFound THEN [err |-> ErrNotFound, tx |-> tx]
    ELSE [err |-> d.err, tx |-> withScenarios(tx, d.bkt)]

deleteScenarioFn(tx, id) ==
    IF ~hasScenariosBucket(tx) THEN [err |-> ErrNotFound, tx |-> tx]
    ELSE deleteScenarioDone(tx, DeleteBucket(getScenariosBucket(tx), id))

DeleteScenario(store, id, commit) ==
    Update(store, deleteScenarioFn(store, id), commit)

\* ------------------------------------------- a write transaction, in steps

\* The id-bucket of id in the transaction tx, and tx with it replaced.
idBucket(tx, id) == Bucket(getScenariosBucket(tx), id)
setIDBucket(tx, id, ibkt) ==
    withScenarios(tx, SetBucket(getScenariosBucket(tx), id, ibkt))

\* The function of CreateScenario up to writeScenario, with
\* CreateBucketIfNotExists for the id-bucket.
createScenarioBeginUpsert(tx, scenario, t) ==
    LET b == createScenariosBucket(tx)
        bkt == getScenariosBucket(b.bkt)
        c == IF HasBucket(bkt, scenario.ID) THEN [err |-> nil, bkt |-> bkt]
             ELSE CreateBucket(bkt, scenario.ID)
    IN  IF b.err # nil THEN [err |-> b.err, tx |-> b.bkt, scenario |-> scenario]
        ELSE IF c.err # nil THEN [err |-> c.err, tx |-> b.bkt, scenario |-> scenario]
        ELSE [err |-> nil, tx |-> withScenarios(b.bkt, c.bkt),
              scenario |-> [scenario EXCEPT !.CreatedAt = t, !.UpdatedAt = t]]

\* The function of CreateScenario up to writeScenario, after CreateBucket of
\* the id-bucket returned c.
createScenarioBeginBucket(tx, scenario, t, c) ==
    IF c.err = ErrBucketExists
    THEN [err |-> ErrAlreadyExists, tx |-> tx, scenario |-> scenario]
    ELSE IF c.err # nil THEN [err |-> c.err, tx |-> tx, scenario |-> scenario]
    ELSE [err |-> nil, tx |-> withScenarios(tx, c.bkt),
          scenario |-> [scenario EXCEPT !.CreatedAt = t, !.UpdatedAt = t]]

createScenarioBeginIn(scenario, t, b) ==
    IF b.err # nil THEN [err |-> b.err, tx |-> b.bkt, scenario |-> scenario]
    ELSE createScenarioBeginBucket(b.bkt, scenario, t,
             CreateBucket(getScenariosBucket(b.bkt), scenario.ID))

\* The function of CreateScenario up to its call of writeScenario: the
\* id-bucket is created and the two timestamps are set.
createScenarioBegin(tx, scenario, t) ==
    createScenarioBeginIn(scenario, t, createScenariosBucket(tx))

updateScenarioBeginIn(scenario, t, b) ==
    IF b.err # nil THEN [err |-> b.err, tx |-> b.bkt, scenario |-> scenario]
    ELSE IF ~HasBucket(getScenariosBucket(b.bkt), scenario.ID)
    THEN [err |-> ErrNotFound, tx |-> b.bkt, scenario |-> scenario]
    ELSE [err |-> nil, tx |-> b.bkt, scenario |-> [scenario EXCEPT !.UpdatedAt = t]]

\* The function of UpdateScenario up to its call of writeScenario.
updateScenarioBegin(tx, scenario, t) ==
    updateScenarioBeginIn(scenario, t, createScenariosBucket(tx))

\* The function of DeleteScenario, which is one step.
deleteScenarioBegin(scenario, r) ==
    [err |-> r.err, tx |-> r.tx, scenario |-> scenario]

\* The steps of writeScenario, each on the id-bucket ibkt: the two
\* timestamps, the removal of the definition bucket, the definition, the ID.
Stages == {"timestamps", "delete", "definition", "id"}

stageResult(scenario, r) ==
    [err |-> r.err, bkt |-> r.bkt, scenario |-> scenario]

stageDefinition(scenario, d) ==
    [err |-> d.err, bkt |-> d.bkt,
     scenario |-> [scenario EXCEPT !.Definition = d.sdef]]

writeStage(pc, ibkt, scenario) ==
    CASE pc = "timestamps" ->
           stageResult(scenario,
               WriteTimestamps(ibkt, scenario.CreatedAt, scenario.UpdatedAt))
      [] pc = "delete" ->
           stageResult(scenario, deleteIfExists(ibkt, bucketKeyDefinition))
      [] pc = "definition" ->
           stageDefinition(scenario, writeDefinition(ibkt, scenario.Definition))
      [] pc = "id" ->
           stageResult(scenario, Put(ibkt, bucketKeyID, scenario.ID))

nextStage(pc) ==
    CASE pc = "timestamps" -> "delete"
      [] pc = "delete" -> "definition"
      [] pc = "definition" -> "id"
      [] pc = "id" -> "commit"

\* GetScenario reading the timestamps in one View and the definition in a
\* second one: snap is the store the first sees, cur the store the second.
viewScenarioTwoViews(snap, cur, id) ==
    LET a == GetScenario(snap, id)
        b == GetScenario(cur, id)
    IN  IF a.err # nil THEN a
        ELSE IF b.err # nil THEN b
        ELSE [err |-> nil,
              scenario |-> [a.scenario EXCEPT !.Definition = b.scenario.Definition]]

\* What GetScenario and ListScenarios return when their View began on the
\* committed store snap and the committed store has become cur since: every
\* read of the function goes to the transaction of the one View.
viewScenario(snap, cur, id) == GetScenario(snap, id)
viewScenarios(snap, cur) == ListScenarios(snap)

\* ------------------------------------------------------- the HTTP daemon

\* The kinds of error errdefs tells apart.
IsAlreadyExists(err) == err = ErrAlreadyExists
IsNotFound(err) == err = ErrNotFound
IsInvalidArgument(err) == err = ErrInvalidArgument
IsUnavailable(err) == err = ErrUnavailable

\* The status codes createHTTPHandler answers with.
StatusConflict == "409 Conflict"
StatusNotFound == "404 Not Found"
StatusNotAcceptable == "406 Not Acceptable"
StatusServiceUnavailable == "503 Service Unavailable"
StatusInternalServerError == "500 Internal Server Error"

\* No response written: the status is left to the handler.
NoStatus == ""

\* What the wrapper of createHTTPHandler does once the handler returned err:
\* whether it wrote an error response, and with which status.
createHTTPHandler(err) ==
    [err |-> err,
     written |-> err # nil,
     status |-> IF err = nil THEN NoStatus
                ELSE IF IsAlreadyExists(err) THEN StatusConflict
                ELSE IF IsNotFound(err) THEN StatusNotFound
                ELSE IF IsInvalidArgument(err) THEN StatusNotAcceptable
                ELSE IF IsUnavailable(err) THEN StatusServiceUnavailable
                ELSE StatusInternalServerError]

\* The errors a handler of the daemon can return (ErrCommit stands for an
\* error of no kind errdefs knows).
HandlerErrors ==
    {nil, ErrAlreadyExists, ErrNotFound, ErrInvalidArgument, ErrUnavailable,
     ErrCommit}

\* ------------------------------------------------------- the REST client

\* A map after a JSON round trip: the fields of ScenarioDefinition are
\* omitempty, so a map with no entry is left out and decodes as nil.
jsonMap(m) == IF len(m) = 0 THEN NilMap ELSE m

jsonDefinition(sdef) ==
    [Objects |-> jsonMap(sdef.Objects),
     Seed |-> jsonMap(sdef.Seed),
     Benchmark |-> jsonMap(sdef.Benchmark)]

\* A metadata.Scenario after being marshalled by the daemon and decoded by
\* the client.
jsonScenario(m) == [m EXCEPT !.Definition = jsonDefinition(@)]

\* The request of a client: its method and the path a.url() built.
Request(method, path) == [method |-> method, path |-> path]

\* The client did nothing yet, and the client died calling a nil urlFunc.
NoRequest == Request("", <<>>)
NilURLPanic == Request("panic", <<>>)

\* The scenario struct: hasURL is whether its url field was set.
scenarioHandle(metadata, hasURL) == [metadata |-> metadata, hasURL |-> hasURL]

\* The handles scenarioAPI.Create returns when the daemon answered r with
\* the scenario m: none on an error response.
scenarioAPICreate(r, m) ==
    IF r.written THEN {} ELSE {scenarioHandle(jsonScenario(m), FALSE)}

\* The handles scenarioAPI.Get returns.
scenarioAPIGet(r, m) ==
    IF r.written THEN {} ELSE {scenarioHandle(jsonScenario(m), TRUE)}

\* The handles scenarioAPI.List returns for the scenarios ms.
scenarioAPIList(r, ms) ==
    IF r.written THEN {}
    ELSE {scenarioHandle(jsonScenario(ms[i]), TRUE) : i \in 1..Len(ms)}

\* The request scenario.Remove sends for the handle h: calling the nil url
\* of a handle panics before anything is sent.
scenarioRemove(h) ==
    IF ~h.hasURL THEN NilURLPanic
    ELSE Request("DELETE", <<"scenarios", h.metadata.ID>>)

\* ------------------------------------------------------------ the inputs

IDs == {"", "x", "y"}

ObjA == [Type |-> "oci-image", Reference |-> "r1", Chunker |-> "", Layout |-> ""]
ObjB == [Type |-> "oci-image", Reference |-> "r2", Chunker |-> "c", Layout |-> "l"]

\* The definitions callers pass: nothing set; two objects, a seed with an
\* empty-valued entry and a benchmark; one object, a seed and a benchmark
\* entry with no key, which the store refuses in the middle of the write.
Defs ==
    { ZeroDefinition,
      [Objects |-> MakeMap(("a" :> ObjA) @@ ("b" :> ObjB)),
       Seed |-> MakeMap(("k" :> "v") @@ ("j" :> "")),
       Benchmark |-> MakeMap("k" :> "w")],
      [Objects |-> MakeMap("a" :> ObjA),
       Seed |-> MakeMap("k" :> "v"),
       Benchmark |-> MakeMap("" :> "v")] }

\* The CreatedAt a caller's record carries: unset, or some instant.
ArgTimes == {ZeroTime, [wall |-> MaxTime]}

Record(id, d, c) ==
    [ID |-> id, Definition |-> d, CreatedAt |-> c, UpdatedAt |-> ZeroTime]

\* The records passed to CreateScenario and to UpdateScenario.
CreateArgs == {Record(id, d, ZeroTime) : id \in IDs, d \in Defs}
UpdateArgs == {Record(id, d, c) : id \in IDs, d \in Defs, c \in ArgTimes}

\* The maps the codec is exercised with: nil, empty, entries with empty
\* values, several entries.
CodecObjects ==
    { NilMap, MakeMap(EmptyFcn), MakeMap("a" :> ObjB),
      MakeMap(("a" :> ObjA) @@ ("b" :> ObjB)) }
CodecSeeds ==
    { NilMap, MakeMap(EmptyFcn), MakeMap("k" :> ""),
      MakeMap(("k" :> "v") @@ ("j" :> "")),
      MakeMap(("k" :> "v") @@ ("j" :> "w")) }
CodecBenchmarks == { NilMap, MakeMap("k" :> "w"), MakeMap("k" :> "") }
CodecDefs ==
    { [Objects |-> o, Seed |-> s, Benchmark |-> b] :
        o \in CodecObjects, s \in CodecSeeds, b \in CodecBenchmarks }
CodecArgs == {Record("x", d, ZeroTime) : d \in CodecDefs}

\* How a commit can end.
Commits == {nil, ErrCommit}

\* -------------------------------------------------------------- the state

VARIABLES
    db,     \* the committed store: the root bucket
    prev,   \* the committed store before the last call
    now,    \* the wall clock's latest reading
    last,   \* the last call: its operation, argument and results
    live,   \* the ids created and not deleted since
    resp,   \* what the daemon's wrapper did with the last handler's error
    req,    \* the last request of the REST client
    held,   \* the scenario handles the REST client's last call returned
    calls,  \* the call of each concurrent writer, and its transaction
    rd      \* the call of the concurrent reader, and its snapshot

clientVars == <<resp, req, held>>
concVars == <<calls, rd>>

vars == <<db, prev, now, last, live, clientVars, concVars>>

\* The concurrent callers of the write handlers.
Writers == {"w1", "w2"}

\* A writer between calls, and the reader between calls.
IdleCall ==
    [pc |-> "idle", op |-> "", arg |-> ZeroScenario, err |-> nil,
     root |-> EmptyBucket, race |-> FALSE]
IdleRead ==
    [pc |-> "idle", op |-> "", snap |-> EmptyBucket, during |-> FALSE,
     result |-> [err |-> nil]]

\* The readings time.Now() can give next: the clock never goes back.
Readings == {[wall |-> w] : w \in {t \in {now, now + 1} : t <= MaxTime}}

Call(op, arg, err, ret, list) ==
    [op |-> op, arg |-> arg, err |-> err, ret |-> ret, list |-> list]

Init ==
    /\ db = EmptyBucket
    /\ prev = EmptyBucket
    /\ now = 1
    /\ last = Call("none", ZeroScenario, nil, ZeroScenario, <<>>)
    /\ live = {}
    /\ resp = createHTTPHandler(nil)
    /\ req = NoRequest
    /\ held = {}
    /\ calls = [w \in Writers |-> IdleCall]
    /\ rd = IdleRead

\* The state after a call that returned r: the store r.db, the clock at w.
Step(op, arg, r, ret, list, w, ids) ==
    /\ db' = r.db
    /\ prev' = db
    /\ now' = w
    /\ last' = Call(op, arg, r.err, ret, list)
    /\ live' = IF r.err = nil THEN ids ELSE live

GetRecordStep(id, r) ==
    /\ last' = Call("Get", [ZeroScenario EXCEPT !.ID = id], r.err, r.scenario, <<>>)
    /\ prev' = db
    /\ UNCHANGED <<db, now, live>>

GetRecord(id) == GetRecordStep(id, GetScenario(db, id))

ListRecordsStep(r) ==
    /\ last' = Call("List", ZeroScenario, r.err, ZeroScenario, r.scenarios)
    /\ prev' = db
    /\ UNCHANGED <<db, now, live>>

ListRecords == ListRecordsStep(ListScenarios(db))

CreateRecordStep(scenario, t, r) ==
    Step("Create", scenario, r, r.scenario, <<>>, t.wall, live \cup {scenario.ID})

CreateRecord(scenario, t, commit) ==
    CreateRecordStep(scenario, t, CreateScenario(db, scenario, t, commit))

UpdateRecordStep(scenario, t, r) ==
    Step("Update", scenario, r, r.scenario, <<>>, t.wall, live)

UpdateRecord(scenario, t, commit) ==
    UpdateRecordStep(scenario, t, UpdateScenario(db, scenario, t, commit))

DeleteRecordStep(id, r) ==
    Step("Delete", [ZeroScenario EXCEPT !.ID = id], r, ZeroScenario, <<>>,
         now, live \ {id})

DeleteRecord(id, commit) == DeleteRecordStep(id, DeleteScenario(db, id, commit))

\* The DB methods called directly: the daemon and the client stand by.
Next ==
    \/ \E id \in IDs : GetRecord(id) /\ UNCHANGED <<clientVars, concVars>>
    \/ ListRecords /\ UNCHANGED <<clientVars, concVars>>
    \/ \E s \in CreateArgs, t \in Readings, c \in Commits :
           CreateRecord(s, t, c) /\ UNCHANGED <<clientVars, concVars>>
    \/ \E s \in UpdateArgs, t \in Readings, c \in Commits :
           UpdateRecord(s, t, c) /\ UNCHANGED <<clientVars, concVars>>
    \/ \E id \in IDs, c \in Commits : DeleteRecord(id, c) /\ UNCHANGED <<clientVars, concVars>>

Spec == Init /\ [][Next]_vars

\* The codec exercised on one record: every definition of CodecDefs written
\* over every other, with the clock standing still and commits succeeding.
NextCodec ==
    \/ GetRecord("x") /\ UNCHANGED <<clientVars, concVars>>
    \/ ListRecords /\ UNCHANGED <<clientVars, concVars>>
    \/ \E s \in CodecArgs :
           CreateRecord(s, [wall |-> now], nil) /\ UNCHANGED <<clientVars, concVars>>
    \/ \E s \in CodecArgs :
           UpdateRecord(s, [wall |-> now], nil) /\ UNCHANGED <<clientVars, concVars>>
    \/ DeleteRecord("x", nil) /\ UNCHANGED <<clientVars, concVars>>

SpecCodec == Init /\ [][NextCodec]_vars

\* The REST client talking to the daemon: the route of each request calls
\* the DB method of the same name and the wrapper of createHTTPHandler
\* answers for its error; the client keeps the handles of its last call.
ClientIDs == IDs \ {""}
ClientDefs == Defs

\* scenarioAPI.Create(id, sdef): POST /scenarios?id=<id>.
ClientCreate(id, sdef) ==
    /\ CreateRecord(Record(id, jsonDefinition(sdef), ZeroTime), [wall |-> now], nil)
    /\ req' = Request("POST", <<"scenarios">>)
    /\ resp' = createHTTPHandler(last'.err)
    /\ held' = scenarioAPICreate(resp', last'.ret)

\* scenarioAPI.Get(name): GET /scenarios/<name>.
ClientGet(name) ==
    /\ GetRecord(name)
    /\ req' = Request("GET", <<"scenarios", name>>)
    /\ resp' = createHTTPHandler(last'.err)
    /\ held' = scenarioAPIGet(resp', last'.ret)

\* scenarioAPI.List(): GET /scenarios.
ClientList ==
    /\ ListRecords
    /\ req' = Request("GET", <<"scenarios">>)
    /\ resp' = createHTTPHandler(last'.err)
    /\ held' = scenarioAPIList(resp', last'.list)

\* Remove on a handle whose url is set: DELETE /scenarios/<ID>.
ClientRemoveSent(h, r) ==
    /\ r # NilURLPanic
    /\ DeleteRecord(h.metadata.ID, nil)
    /\ req' = r
    /\ resp' = createHTTPHandler(last'.err)
    /\ held' = held

\* Remove on a handle whose url was never set: the client panics, nothing
\* reaches the daemon.
ClientRemovePanics(r) ==
    /\ r = NilURLPanic
    /\ req' = r
    /\ held' = {}
    /\ UNCHANGED <<db, prev, now, last, live, resp>>

\* scenario.Remove() on one of the handles the client holds.
ClientRemove(h) ==
    \/ ClientRemoveSent(h, scenarioRemove(h))
    \/ ClientRemovePanics(scenarioRemove(h))

\* A handler of another route of the daemon returns err.
ServeOther(err) ==
    /\ resp' = createHTTPHandler(err)
    /\ UNCHANGED <<db, prev, now, last, live, req, held>>

NextClient ==
    \/ \E id \in ClientIDs, sdef \in ClientDefs :
           ClientCreate(id, sdef) /\ UNCHANGED concVars
    \/ \E name \in ClientIDs : ClientGet(name) /\ UNCHANGED concVars
    \/ ClientList /\ UNCHANGED concVars
    \/ \E h \in held : ClientRemove(h) /\ UNCHANGED concVars
    \/ \E err \in HandlerErrors : ServeOther(err) /\ UNCHANGED concVars

SpecClient == Init /\ [][NextClient]_vars

\* Concurrent callers: two writers and a reader on the record "x".  A write
\* handler runs its function step by step on the root of its transaction;
\* the committed store db changes when the transaction commits.  The clock
\* stands still; prev, last and live describe the calls made one at a time
\* and stand still too.
ConcID == "x"
ConcArgs == {Record(ConcID, d, ZeroTime) : d \in Defs}
ConcOps == {"Create", "Update", "Delete"}

\* A call that was invoked and has not returned; a call in its transaction.
pending(c) == c.pc \notin {"idle", "done"}
writing(c) == c.pc \in Stages \cup {"commit"}

\* Whether a CreateScenario(arg) invoked now races another one: a create of
\* the same id by another writer has not returned, and the committed store
\* holds no record of the id.
races(w, op, arg) ==
    /\ op = "Create"
    /\ ~(hasScenariosBucket(db) /\ HasBucket(getScenariosBucket(db), arg.ID))
    /\ \E u \in Writers \ {w} :
           pending(calls[u]) /\ calls[u].op = "Create" /\ calls[u].arg.ID = arg.ID

\* The writer w calls op(arg): the call waits for the write transaction.
\* race marks the creates that were in flight together on an absent id.
InvokeRace(w, op, arg, race) ==
    /\ ~pending(calls[w])
    /\ calls' = [v \in Writers |->
                   IF v = w
                   THEN [IdleCall EXCEPT !.pc = "waiting", !.op = op, !.arg = arg,
                                        !.race = race]
                   ELSE [calls[v] EXCEPT !.race = @ \/ race]]
    /\ UNCHANGED <<db, prev, now, last, live, clientVars, rd>>

Invoke(w, op, arg) == InvokeRace(w, op, arg, races(w, op, arg))

\* The function of the handler op up to its first write of the record.
beginFn(op, tx, scenario, t) ==
    CASE op = "Create" -> createScenarioBegin(tx, scenario, t)
      [] op = "Update" -> updateScenarioBegin(tx, scenario, t)
      [] op = "Delete" ->
           deleteScenarioBegin(scenario, deleteScenarioFn(tx, scenario.ID))

BeginStep(w, r) ==
    /\ calls' = [calls EXCEPT ![w] =
                   IF r.err # nil THEN [@ EXCEPT !.pc = "done", !.err = r.err]
                   ELSE [@ EXCEPT !.pc = IF calls[w].op = "Delete"
                                         THEN "commit" ELSE "timestamps",
                                  !.root = r.tx, !.arg = r.scenario]]
    /\ UNCHANGED <<db, prev, now, last, live, clientVars, rd>>

\* DB.Update lets w in when no write transaction is open: the transaction
\* starts from the committed store.  An error of the function rolls it back.
Begin(w) ==
    /\ calls[w].pc = "waiting"
    /\ \A v \in Writers : ~writing(calls[v])
    /\ BeginStep(w, beginFn(calls[w].op, db, calls[w].arg, [wall |-> now]))

WriteStepDone(w, r) ==
    /\ calls' = [calls EXCEPT ![w] =
                   IF r.err # nil
                   THEN [@ EXCEPT !.pc = "done", !.err = r.err, !.root = EmptyBucket,
                                  !.arg = r.scenario]
                   ELSE [@ EXCEPT !.pc = nextStage(@),
                                  !.root = setIDBucket(@, calls[w].arg.ID, r.bkt),
                                  !.arg = r.scenario]]
    /\ UNCHANGED <<db, prev, now, last, live, clientVars, rd>>

\* One step of writeScenario in the transaction of w.
WriteStep(w) ==
    /\ calls[w].pc \in Stages
    /\ WriteStepDone(w, writeStage(calls[w].pc,
                                   idBucket(calls[w].root, calls[w].arg.ID),
                                   calls[w].arg))

\* The transaction of w commits: its root becomes the committed store.
Commit(w) ==
    /\ calls[w].pc = "commit"
    /\ db' = calls[w].root
    /\ calls' = [calls EXCEPT ![w] = [@ EXCEPT !.pc = "done", !.root = EmptyBucket]]
    /\ UNCHANGED <<prev, now, last, live, clientVars, rd>>

\* The reader calls GetScenario or ListScenarios: its View takes the
\* committed store as it is, whatever the writers are doing.
ReadBegin(op) ==
    /\ rd.pc # "reading"
    /\ rd' = [IdleRead EXCEPT !.pc = "reading", !.op = op, !.snap = db]
    /\ UNCHANGED <<db, prev, now, last, live, clientVars, calls>>

ReadEndStep(r) ==
    /\ rd' = [rd EXCEPT !.pc = "done", !.result = r,
                        !.during = \E w \in Writers : writing(calls[w])]
    /\ UNCHANGED <<db, prev, now, last, live, clientVars, calls>>

\* The reader's call returns.
ReadEnd ==
    /\ rd.pc = "reading"
    /\ ReadEndStep(IF rd.op = "Get" THEN viewScenario(rd.snap, db, ConcID)
                   ELSE viewScenarios(rd.snap, db))

NextConc ==
    \/ \E w \in Writers, op \in ConcOps, arg \in ConcArgs : Invoke(w, op, arg)
    \/ \E w \in Writers : Begin(w)
    \/ \E w \in Writers : WriteStep(w)
    \/ \E w \in Writers : Commit(w)
    \/ \E op \in {"Get", "List"} : ReadBegin(op)
    \/ ReadEnd

SpecConc == Init /\ [][NextConc]_vars

\* ------------------------------------------------------------ the claims

\* What GetScenario returns for id in the committed store, and in the store
\* before the last call.
Stored(id) == GetScenario(db, id)
StoredBefore(id) == GetScenario(prev, id)

\* Whether the store holds an id-bucket for id.
Exists(store, id) ==
    hasScenariosBucket(store) /\ HasBucket(getScenariosBucket(store), id)

\* A map without its empty-valued entries, and a definition without the
\* empty-valued entries of its Seed and Benchmark.
StripMap(m) ==
    [m EXCEPT !.kv = [k \in {x \in DOMAIN m.kv : m.kv[x] # ""} |-> m.kv[k]]]
Strip(sdef) ==
    [sdef EXCEPT !.Seed = StripMap(@), !.Benchmark = StripMap(@)]

\* Two definitions with the same entries (a nil map equals an empty one).
SameDefinition(d, e) ==
    /\ d.Objects.kv = e.Objects.kv
    /\ d.Seed.kv = e.Seed.kv
    /\ d.Benchmark.kv = e.Benchmark.kv

\* C1: after a successful CreateRecord(id, def), GetRecord(id) returns a
\* Definition equal to def with the empty-valued Seed and Benchmark entries
\* stripped, whatever the ObjectSpecs of def hold.
C1_RoundTrip ==
    (last.op = "Create" /\ last.err = nil) =>
        /\ Stored(last.arg.ID).err = nil
        /\ SameDefinition(Stored(last.arg.ID).scenario.Definition,
                          Strip(last.arg.Definition))

\* C2: after a successful UpdateRecord(record), the Definition GetRecord
\* returns is the one the definition written alone reads back as: it depends
\* on record.Definition only, and nothing of the version before survives.
C2_WholesaleReplacement ==
    (last.op = "Update" /\ last.err = nil) =>
        /\ Stored(last.arg.ID).err = nil
        /\ Stored(last.arg.ID).scenario.Definition =
               readDefinition(writeDefinition(EmptyBucket, last.arg.Definition).bkt)

\* An update that shrank Objects {a, b} to {a}.
C2_Witness ==
    /\ last.op = "Update" /\ last.err = nil
    /\ Exists(prev, "x")
    /\ DOMAIN StoredBefore("x").scenario.Definition.Objects.kv = {"a", "b"}
    /\ DOMAIN Stored("x").scenario.Definition.Objects.kv = {"a"}

\* C3: CreateRecord on an id that exists fails with AlreadyExists and leaves
\* the store, so the record and its timestamps, as it was.
C3_Uniqueness ==
    (last.op = "Create" /\ Exists(prev, last.arg.ID)) =>
        /\ last.err = ErrAlreadyExists
        /\ db = prev
        /\ Stored(last.arg.ID) = StoredBefore(last.arg.ID)

\* A second create of an id, with another definition than the stored one.
C3_Witness ==
    /\ last.op = "Create" /\ last.err = ErrAlreadyExists
    /\ ~SameDefinition(Stored(last.arg.ID).scenario.Definition,
                       Strip(last.arg.Definition))

\* C4: when CreateRecord, UpdateRecord or DeleteRecord returns an error, the
\* committed store is the store before the call.
C4_Atomicity ==
    (last.op \in {"Create", "Update", "Delete"} /\ last.err # nil) => db = prev

\* An update the store refused after writeScenario had rewritten the
\* timestamps and the definition in the transaction.
C4_Witness ==
    /\ last.op = "Update" /\ last.err = ErrKeyRequired
    /\ updateScenarioFn(prev, last.arg, [wall |-> now]).tx # prev
    /\ db = prev

\* C5: a successful UpdateRecord leaves CreatedAt as it was stored, whatever
\* CreatedAt the record passed holds.
C5_CreatedAtSetOnce ==
    (last.op = "Update" /\ last.err = nil) =>
        Stored(last.arg.ID).scenario.CreatedAt =
            StoredBefore(last.arg.ID).scenario.CreatedAt

\* C6: every stored record has UpdatedAt >= CreatedAt, and a successful
\* UpdateRecord stores an UpdatedAt strictly after the one stored before.
C6_UpdatedAtAdvances ==
    /\ \A id \in IDs : Exists(db, id) =>
           Stored(id).scenario.UpdatedAt.wall >= Stored(id).scenario.CreatedAt.wall
    /\ (last.op = "Update" /\ last.err = nil) =>
           Stored(last.arg.ID).scenario.UpdatedAt.wall >
               StoredBefore(last.arg.ID).scenario.UpdatedAt.wall

\* The IDs of the records of a list.
ListedIDs(list) == {list[i].ID : i \in 1..Len(list)}

\* C7: ListRecords succeeds in every state and returns one record for each
\* id created and not deleted since, and no other.
C7_ListCompleteness ==
    LET r == ListScenarios(db)
    IN  /\ r.err = nil
        /\ Len(r.scenarios) = Cardinality(live)
        /\ ListedIDs(r.scenarios) = live
        /\ last.op = "List" => (last.err = nil /\ ListedIDs(last.list) = live)

\* The list after a delete that left one of two records.
C7_Witness ==
    /\ last.op = "Delete" /\ last.err = nil
    /\ Cardinality(live) = 1
    /\ Len(ListScenarios(db).scenarios) = 1

C9_AbsentIsNotFound ==
    (/\ last.op \in {"Get", "Update", "Delete"}
     /\ ~(last.op = "Update" /\ last.arg.ID = "")
     /\ ~Exists(prev, last.arg.ID)) =>
        /\ last.err = ErrNotFound
        /\ db = prev

\* An update of an absent id before the namespace exists: the namespace the
\* transaction created is not left behind.
C9_Witness ==
    /\ last.op = "Update" /\ last.err = ErrNotFound
    /\ ~hasScenariosBucket(prev)
    /\ hasScenariosBucket(updateScenarioFn(prev, last.arg, [wall |-> now]).tx)
    /\ ~hasScenariosBucket(db)

\* C10: UpdateRecord with an empty id fails with InvalidArgument in every
\* store state and changes nothing.
C10_EmptyIDInvalid ==
    (last.op = "Update" /\ last.arg.ID = "") =>
        /\ last.err = ErrInvalidArgument
        /\ db = prev

\* An update with an empty id on a store that holds records.
C10_Witness ==
    /\ last.op = "Update" /\ last.arg.ID = ""
    /\ last.err = ErrInvalidArgument
    /\ live # {}

\* The leaves of the map bucket name of the stored definition of id.
StoredLeaves(store, id, name) ==
    LET ibkt == Bucket(getScenariosBucket(store), id)
        dbkt == IF HasBucket(ibkt, bucketKeyDefinition)
                THEN Bucket(ibkt, bucketKeyDefinition) ELSE EmptyBucket
    IN  IF HasBucket(dbkt, name) THEN Bucket(dbkt, name).kv ELSE EmptyFcn

\* Whether the function f (the entries of a map) has an empty-valued entry.
HasEmptyValue(f) == \E k \in DOMAIN f : f[k] = ""

\* C11: no committed record holds a Seed or Benchmark leaf whose value is
\* the empty string, and GetRecord never returns a map with such an entry.
C11_NoEmptyValues ==
    /\ \A id \in IDs : Exists(db, id) =>
           /\ ~HasEmptyValue(StoredLeaves(db, id, bucketKeySeed))
           /\ ~HasEmptyValue(StoredLeaves(db, id, bucketKeyBenchmark))
           /\ ~HasEmptyValue(Stored(id).scenario.Definition.Seed.kv)
           /\ ~HasEmptyValue(Stored(id).scenario.Definition.Benchmark.kv)
    /\ (last.op = "Get" /\ last.err = nil) =>
           /\ ~HasEmptyValue(last.ret.Definition.Seed.kv)
           /\ ~HasEmptyValue(last.ret.Definition.Benchmark.kv)

\* An update whose Seed held an empty-valued entry next to a valued one:
\* the valued one is stored, the empty-valued one is not.
C11_Witness ==
    /\ last.op = "Update" /\ last.err = nil
    /\ HasEmptyValue(last.arg.Definition.Seed.kv)
    /\ DOMAIN StoredLeaves(db, last.arg.ID, bucketKeySeed) = {"k"}
    /\ DOMAIN last.arg.Definition.Seed.kv = {"k", "j"}

\* The definition bucket of the record id of store (empty when there is none).
DefinitionBucket(store, id) ==
    LET ibkt == Bucket(getScenariosBucket(store), id)
    IN  IF HasBucket(ibkt, bucketKeyDefinition)
        THEN Bucket(ibkt, bucketKeyDefinition) ELSE EmptyBucket

\* The map bucket name holds what writing m leaves: no bucket when m has no
\* entry, else one leaf for each entry of m with a non-empty value.
MapBucketMatches(dbkt, name, m) ==
    /\ HasBucket(dbkt, name) <=> len(m) > 0
    /\ HasBucket(dbkt, name) =>
           /\ Bucket(dbkt, name).kv = StripMap(m).kv
           /\ DOMAIN Bucket(dbkt, name).sub = {}

\* C14: after a successful CreateRecord or UpdateRecord the Seed, Benchmark
\* and Objects sub-buckets exist only when the map written has entries, and
\* then hold one leaf for each entry with a non-empty value (one bucket for
\* each object); writing an empty or omitted map leaves no sub-bucket, and
\* GetRecord returns the field absent.
C14_DeleteThenRecreate ==
    (last.op \in {"Create", "Update"} /\ last.err = nil) =>
        LET dbkt == DefinitionBucket(db, last.arg.ID)
            def == last.arg.Definition
            got == Stored(last.arg.ID).scenario.Definition
        IN  /\ MapBucketMatches(dbkt, bucketKeySeed, def.Seed)
            /\ MapBucketMatches(dbkt, bucketKeyBenchmark, def.Benchmark)
            /\ HasBucket(dbkt, bucketKeyObjects) <=> len(def.Objects) > 0
            /\ HasBucket(dbkt, bucketKeyObjects) =>
                   /\ DOMAIN Bucket(dbkt, bucketKeyObjects).sub = DOMAIN def.Objects.kv
                   /\ DOMAIN Bucket(dbkt, bucketKeyObjects).kv = {}
            /\ len(def.Seed) = 0 => got.Seed = NilMap
            /\ len(def.Benchmark) = 0 => got.Benchmark = NilMap
            /\ len(def.Objects) = 0 => got.Objects = NilMap

\* An update that wrote an empty, non-nil Seed and no Objects over a record
\* that held both.
C14_Witness ==
    /\ last.op = "Update" /\ last.err = nil
    /\ last.arg.Definition.Seed = MakeMap(EmptyFcn)
    /\ len(last.arg.Definition.Objects) = 0
    /\ Exists(prev, last.arg.ID)
    /\ HasBucket(DefinitionBucket(prev, last.arg.ID), bucketKeySeed)
    /\ HasBucket(DefinitionBucket(prev, last.arg.ID), bucketKeyObjects)
    /\ ~HasBucket(DefinitionBucket(db, last.arg.ID), bucketKeySeed)
    /\ ~HasBucket(DefinitionBucket(db, last.arg.ID), bucketKeyObjects)

\* The keys of the id-buckets of store.
StoredIDs(store) ==
    IF hasScenariosBucket(store) THEN DOMAIN getScenariosBucket(store).sub ELSE {}

\* C16: in every committed state the ID leaf of each id-bucket equals the
\* key of the bucket; GetRecord(id) returns a record whose ID is id, and each
\* record of ListRecords is the record stored under its own ID.
C16_IDStability ==
    /\ \A id \in StoredIDs(db) :
           /\ HasKey(Bucket(getScenariosBucket(db), id), bucketKeyID)
           /\ Get(Bucket(getScenariosBucket(db), id), bucketKeyID) = id
           /\ Stored(id).err = nil
           /\ Stored(id).scenario.ID = id
    /\ LET l == ListScenarios(db).scenarios
       IN  \A i \in 1..Len(l) :
               /\ l[i].ID \in StoredIDs(db)
               /\ l[i] = Stored(l[i].ID).scenario
    /\ (last.op = "Get" /\ last.err = nil) => last.ret.ID = last.arg.ID
    /\ last.op = "List" => \A i \in 1..Len(last.list) :
           last.list[i] = Stored(last.list[i].ID).scenario

\* An update of one of two stored records, which rewrote its ID leaf.
C16_Witness ==
    /\ last.op = "Update" /\ last.err = nil
    /\ StoredIDs(db) = {"x", "y"}
    /\ db # prev
    /\ Get(Bucket(getScenariosBucket(db), last.arg.ID), bucketKeyID) = last.arg.ID

\* Two records with the same ID, timestamps and map entries (a nil map
\* equals an empty one).
SameRecord(a, b) ==
    /\ a.ID = b.ID
    /\ a.CreatedAt = b.CreatedAt
    /\ a.UpdatedAt = b.UpdatedAt
    /\ SameDefinition(a.Definition, b.Definition)

\* C17: the record a successful CreateRecord or UpdateRecord returns equals
\* the record GetRecord returns for the same id immediately afterwards.
C17_ReturnedEqualsStored ==
    (last.op \in {"Create", "Update"} /\ last.err = nil) =>
        /\ Stored(last.arg.ID).err = nil
        /\ SameRecord(last.ret, Stored(last.arg.ID).scenario)

\* The status 422 of net/http, which the code never uses.
StatusUnprocessableEntity == "422 Unprocessable Entity"

\* C15: the wrapper answers AlreadyExists with conflict, NotFound with
\* not-found, InvalidArgument with unprocessable, Unavailable with
\* unavailable and every other error with internal, and writes no error
\* response when the handler returned no error.
C15_ErrorMapping ==
    /\ resp.err = nil => (~resp.written /\ resp.status = NoStatus)
    /\ resp.err # nil => resp.written
    /\ resp.err = ErrAlreadyExists => resp.status = StatusConflict
    /\ resp.err = ErrNotFound => resp.status = StatusNotFound
    /\ resp.err = ErrInvalidArgument => resp.status = StatusUnprocessableEntity
    /\ resp.err = ErrUnavailable => resp.status = StatusServiceUnavailable
    /\ resp.err \notin {nil, ErrAlreadyExists, ErrNotFound, ErrInvalidArgument,
                        ErrUnavailable} =>
           resp.status = StatusInternalServerError

\* C18: every handle the REST client holds, from Create, Get or List, has
\* its url set, so that Remove on it sends DELETE /scenarios/<its ID>, and
\* no Remove dies on a nil url.
C18_HandlesHaveURL ==
    /\ \A h \in held :
           /\ h.hasURL
           /\ scenarioRemove(h) = Request("DELETE", <<"scenarios", h.metadata.ID>>)
    /\ req # NilURLPanic

\* What a read op returns on the store s.
ReadOf(op, s) == IF op = "Get" THEN GetScenario(s, ConcID) ELSE ListScenarios(s)

\* C12: a GetRecord or ListRecords that runs while writers create, update
\* and delete returns what the committed store held when the read began or
\* what it holds when the read returns, so for each id the record of one
\* committed state and never a state a transaction is still writing; and a
\* step of the reader is possible whatever the writers are doing.
C12_SnapshotReads ==
    /\ [][(rd.pc = "reading" /\ rd'.pc = "done") =>
             rd'.result \in {ReadOf(rd.op, rd.snap), ReadOf(rd.op, db)}]_vars
    /\ [](ENABLED (ReadBegin("Get") \/ ReadEnd))

\* A GetScenario that returned while an update had written the new
\* timestamps and removed the definition bucket in its transaction: it
\* returned the committed record, which the transaction's root no longer
\* holds.
C12_Witness ==
    /\ rd.pc = "done" /\ rd.op = "Get" /\ rd.during
    /\ rd.result.err = nil
    /\ rd.result = GetScenario(db, ConcID)
    /\ \E w \in Writers :
           /\ calls[w].op = "Update" /\ calls[w].pc = "definition"
           /\ ~HasBucket(idBucket(calls[w].root, ConcID), bucketKeyDefinition)
           /\ GetScenario(calls[w].root, ConcID) # rd.result

\* Two creates of the same id that were in flight together while the id was
\* absent, both returned.
RacingCreates(w, v) ==
    /\ w # v
    /\ calls[w].pc = "done" /\ calls[v].pc = "done"
    /\ calls[w].op = "Create" /\ calls[v].op = "Create"
    /\ calls[w].race /\ calls[v].race

\* The id-bucket a create that returned the scenario arg stored.
WrittenBy(arg) == writeScenario(EmptyBucket, arg).bkt

Accepted(c) == writeScenario(EmptyBucket, c.arg).err = nil

====
